---- MODULE Spec2Model ----
(***************************************************************************)
(* Model of SynapsClient (src/src/index.ts): the host-side controller that *)
(* embeds the Synaps verification flow in a page as a modal or an embed.   *)
(*                                                                         *)
(* The state is the object's fields (this), the part of the page the code  *)
(* touches (document), the listeners, timers and installed provider        *)
(* proxies of the window (window), and a record of what the last call did  *)
(* (last).  Every public method, the click listener, the two message       *)
(* listeners and the embed polling timer is one action.  A handler is an   *)
(* operator from a world w = [this, document, window, fx] to the world     *)
(* after it, so that a handler calling another (the dispatcher calling     *)
(* closeFlow, init calling _initLoad) is composition, and a thrown error   *)
(* is an early return with fx.threw set.                                   *)
(*                                                                         *)
(* JavaScript values: undefined, null and '' are all written "" for a      *)
(* string field (the code only ever tests such fields for truthiness); an  *)
(* optional number is <<>> when absent and <<n>> when present.             *)
(***************************************************************************)
EXTENDS Integers, Sequences, FiniteSets, TLC

VARIABLES constructed, this, document, window, last

vars == <<constructed, this, document, window, last>>

(* Bounds of the model. *)
MaxLoaders == 2
MaxProxies == 2

(***************************************************************************)
(* Inputs.                                                                 *)
(***************************************************************************)
SessionIDs == {"", "abc"}
Services == {"", "individual", "corporate"}
URLs == {"", "https://kyc.example"}

NoColors == [primary |-> "", secondary |-> <<>>]

(* The options objects given to init; given = FALSE is init() with no      *)
(* argument.                                                               *)
NoOptions ==
    [given |-> FALSE, type |-> "", element_id |-> "", colors |-> NoColors,
     lang |-> "", tier |-> <<>>]

InitOptions ==
    { NoOptions,
      [NoOptions EXCEPT !.given = TRUE, !.type = "popup"],
      [given |-> TRUE, type |-> "modal", element_id |-> "my-el",
       colors |-> [primary |-> "#fff", secondary |-> <<>>],
       lang |-> "fr", tier |-> <<3>>],
      [given |-> TRUE, type |-> "embed", element_id |-> "",
       colors |-> [primary |-> "", secondary |-> <<7>>],
       lang |-> "", tier |-> <<0>>] }

EventNames == {"finish", "close"}
Callbacks == {"cbA", "cbB"}
Payloads == {"ready", "finish", "close", "other", "notype", "null"}
ClickTargets ==
    { <<"button", "synaps-btn">>, <<"a", "my-el">>, <<"div", "synaps-btn">> }

(* JavaScript truthiness of an optional number. *)
Truthy(n) == n # <<>> /\ n[1] # 0

(* The type field of a message payload; "" when the payload has none. *)
TypeOf(data) == IF data = "notype" THEN "" ELSE data

(***************************************************************************)
(* The record of a call: what was called and with what, what held when it  *)
(* was called (pre), and what it did: whether an error was thrown, the     *)
(* callbacks invoked in order, the numbers of closeFlow runs, proxy        *)
(* installs and uninstalls, surface attachments, and whether anything of   *)
(* the object, the page or the window changed.  initThrew says that, when  *)
(* the call was made, an init call had thrown and none had succeeded;      *)
(* opens counts the openSession calls made in a row just before this call, *)
(* starting from one that attached the surface (2 stands for two or more); *)
(* cycle says how far the calls just before this one went along            *)
(* openSession, ready, closeFlow, openSession, ready (0 to 5), each        *)
(* having attached, installed or closed without an error.                  *)
(***************************************************************************)
NoPre ==
    [isOpen |-> FALSE, alreadyInit |-> FALSE, parent |-> "none",
     eventListeners |-> 0, handle |-> FALSE, loaderParent |-> "none",
     timers |-> 0]

NoFx(op, args, options) ==
    [op |-> op, args |-> args, options |-> options, pre |-> NoPre,
     threw |-> FALSE, invoked |-> <<>>, closed |-> 0, installs |-> 0,
     uninstalls |-> 0, attached |-> 0, changed |-> FALSE,
     initThrew |-> FALSE, opens |-> 0, cycle |-> 0]

Begin(op, args, options) ==
    [this |-> this, document |-> document, window |-> window,
     fx |-> [NoFx(op, args, options) EXCEPT
               !.pre = [isOpen |-> this.isOpen,
                        alreadyInit |-> this.alreadyInit,
                        parent |-> this.iframe.parent,
                        eventListeners |-> window.eventListeners,
                        handle |-> this.providerProxyUninstaller,
                        loaderParent |-> this.loader.parent,
                        timers |-> window.timers],
               !.initThrew = \/ last.op = "init" /\ last.threw
                             \/ last.initThrew /\ ~this.alreadyInit,
               !.opens = IF last.op # "openSession" THEN 0
                         ELSE IF last.attached > 0 THEN 1
                         ELSE IF last.opens > 0 THEN 2
                         ELSE 0,
               !.cycle = IF last.op = "openSession" /\ last.attached = 1
                         THEN (IF last.cycle = 3 THEN 4 ELSE 1)
                         ELSE IF /\ last.op = "message"
                                 /\ last.args = <<"ready">>
                                 /\ last.installs = 1
                                 /\ last.cycle \in {1, 4}
                         THEN last.cycle + 1
                         ELSE IF /\ last.op = "closeFlow"
                                 /\ ~last.threw
                                 /\ last.cycle = 2
                         THEN 3
                         ELSE 0]]

Throw(w) == [w EXCEPT !.fx.threw = TRUE]

(* Only openSession can leave loader divs behind without end; _initEmbed   *)
(* creates its one loader once, and the timer is never held back.          *)
Bounded(w) ==
    /\ w.document.body.loaders <= MaxLoaders
    /\ w.window.proxies <= MaxProxies

Commit(w) ==
    /\ Bounded(w)
    /\ this' = w.this
    /\ document' = w.document
    /\ window' = w.window
    /\ last' = [w.fx EXCEPT
                  !.changed = (w.this # this \/ w.document # document
                                 \/ w.window # window)]

(***************************************************************************)
(* The object before construction and the page before the script runs.     *)
(***************************************************************************)
NoIframe == [created |-> FALSE, src |-> "", style |-> "", class |-> "", parent |-> "none"]
NoLoader == [created |-> FALSE, class |-> "", parent |-> "none"]

NoObject ==
    [baseURL |-> "", sessionID |-> "", service |-> "", elementID |-> "",
     colors |-> NoColors, type |-> "", lang |-> "", tier |-> <<>>,
     callbacks |-> [e \in EventNames |-> ""], isOpen |-> FALSE,
     alreadyInit |-> FALSE, iframe |-> NoIframe, loaderElement |-> "",
     loader |-> NoLoader, providerProxyUninstaller |-> FALSE]

EmptyDocument ==
    [html |-> [overflow |-> "", margin |-> ""],
     body |-> [overflow |-> "", margin |-> "", loaders |-> 0],
     mount |-> [exists |-> FALSE, loaders |-> 0],
     styleSheets |-> 0, clickListeners |-> 0]

EmptyWindow ==
    [loadListeners |-> 0, eventInited |-> FALSE, eventListeners |-> 0,
     timers |-> 0, proxies |-> 0]

Init ==
    /\ constructed = FALSE
    /\ this = NoObject
    /\ document = EmptyDocument
    /\ window = EmptyWindow
    /\ last = NoFx("none", <<>>, NoOptions)

(***************************************************************************)
(* constructor and _initStyle.                                             *)
(***************************************************************************)
_initStyle(w) == [w EXCEPT !.document.styleSheets = @ + 1]

(* missingArgument testing the session id only. *)
missingArgumentSessionOnly(sessionID, service) == sessionID = ""

missingArgument(sessionID, service) == sessionID = "" \/ service = ""

constructor(w, sessionID, service, url) ==
    IF missingArgument(sessionID, service)
    THEN Throw(w)
    ELSE _initStyle(
           [w EXCEPT !.this =
              [NoObject EXCEPT
                 !.baseURL = IF url = ""
                             THEN IF service = "corporate"
                                  THEN "https://verify-v3.synaps.io"
                                  ELSE "https://verify.synaps.io"
                             ELSE url,
                 !.sessionID = sessionID,
                 !.service = service,
                 !.type = "modal",
                 !.lang = "en"]])

(***************************************************************************)
(* _formatURL: the text is built by concatenation, nothing is encoded.     *)
(***************************************************************************)
_formatURL(o) ==
    LET url0 == o.baseURL \o "?session_id=" \o o.sessionID
                  \o "&service=" \o o.service
                  \o "&type=" \o o.type
                  \o "&lang=" \o (IF o.lang = "" THEN "en" ELSE o.lang)
        url1 == IF o.colors.primary # ""
                THEN url0 \o "&primary_color=" \o o.colors.primary
                ELSE url0
        url2 == IF Truthy(o.colors.secondary)
                THEN url1 \o "&secondary=" \o ToString(o.colors.secondary[1])
                ELSE url1
    IN  IF Truthy(o.tier)
        THEN url2 \o "&tier=" \o ToString(o.tier[1])
        ELSE url2

(***************************************************************************)
(* getFlow, openSession, closeFlow, on.                                    *)
(***************************************************************************)
getFlow(w) ==
    IF w.this.iframe.created
    THEN [w EXCEPT !.this.iframe.src = _formatURL(w.this),
                   !.this.iframe.style = "hidden"]
    ELSE w

openSessionBody(w) ==
    LET w1 == [w EXCEPT
                 !.this.loader = [created |-> TRUE, class |-> "modal",
                                  parent |-> "body"],
                 !.this.loaderElement = "body",
                 !.document.body.loaders = @ + 1,
                 !.document.html.overflow = "hidden",
                 !.this.isOpen = TRUE]
    IN  IF w1.this.iframe.created
        THEN [w1 EXCEPT !.this.iframe.src = _formatURL(w.this),
                        !.this.iframe.style = "modal",
                        !.this.iframe.parent = "body",
                        !.fx.attached = @ + 1]
        ELSE w1

(* openSession without its isOpen guard. *)
openSessionUnguarded(w) == openSessionBody(w)

openSession(w) == IF w.this.isOpen THEN w ELSE openSessionBody(w)

(* removeChild throws NotFoundError when the node is not a child of body. *)
closeFlowThrows(w) ==
    w.this.iframe.created /\ w.this.iframe.parent # "body"

(* closeFlowRestore restoring the body only. *)
closeFlowRestoreBodyOnly(w) ==
    [w EXCEPT !.document.body.overflow = "",
              !.document.body.margin = "",
              !.this.isOpen = FALSE]

closeFlowRestore(w) ==
    [w EXCEPT !.document.html.overflow = "",
              !.document.body.overflow = "",
              !.document.html.margin = "",
              !.document.body.margin = "",
              !.this.isOpen = FALSE]

(* closeFlowTeardown removing the message listeners as well. *)
closeFlowTeardownUnlisten(w) ==
    LET w1 == IF w.this.iframe.created
              THEN [w EXCEPT !.this.iframe.parent = "none",
                             !.window.loadListeners = 0,
                             !.window.eventListeners = 0]
              ELSE w
    IN  IF w1.this.providerProxyUninstaller
        THEN [w1 EXCEPT !.window.proxies = @ - 1,
                        !.fx.uninstalls = @ + 1,
                        !.this.providerProxyUninstaller = FALSE]
        ELSE w1

closeFlowTeardown(w) ==
    LET w1 == IF w.this.iframe.created
              THEN [w EXCEPT !.this.iframe.parent = "none"]
              ELSE w
    IN  IF w1.this.providerProxyUninstaller
        THEN [w1 EXCEPT !.window.proxies = @ - 1,
                        !.fx.uninstalls = @ + 1,
                        !.this.providerProxyUninstaller = FALSE]
        ELSE w1

closeFlow(w) ==
    LET w1 == closeFlowRestore([w EXCEPT !.fx.closed = @ + 1])
    IN  IF closeFlowThrows(w1) THEN Throw(w1) ELSE closeFlowTeardown(w1)

on(w, type, callback) == [w EXCEPT !.this.callbacks[type] = callback]

(***************************************************************************)
(* The listeners: _initEvents' finish/close dispatcher, _initLoad's ready  *)
(* listener, _initModal's click listener.                                  *)
(***************************************************************************)
(* autoCloses closing in either mode. *)
autoClosesAlways(w) == TRUE

autoCloses(w) == w.this.type = "modal"

eventsListener(w, data) ==
    IF data = "null"
    THEN Throw(w)
    ELSE IF TypeOf(data) \notin {"finish", "close"}
    THEN w
    ELSE LET w1 == IF autoCloses(w) THEN closeFlow(w) ELSE w
         IN  IF autoCloses(w) /\ closeFlowThrows(w)
             THEN w1
             ELSE IF w1.this.callbacks[TypeOf(data)] # ""
                  THEN [w1 EXCEPT !.fx.invoked =
                                     Append(@, w1.this.callbacks[TypeOf(data)])]
                  ELSE w1

_initEvents(w) == [w EXCEPT !.window.eventListeners = @ + 1]

loadListener(w, data) ==
    IF data = "null"
    THEN Throw(w)
    ELSE IF TypeOf(data) # "ready"
    THEN w
    ELSE IF w.this.loaderElement # "" /\ w.this.loader.parent # w.this.loaderElement
    THEN Throw(w)
    ELSE LET w1 == IF w.this.loaderElement = "body"
                   THEN [w EXCEPT !.document.body.loaders = @ - 1,
                                  !.this.loader.parent = "none"]
                   ELSE IF w.this.loaderElement = "mount"
                   THEN [w EXCEPT !.document.mount.loaders = @ - 1,
                                  !.this.loader.parent = "none"]
                   ELSE w
             w2 == IF w1.this.iframe.created /\ w1.this.iframe.parent # "none"
                   THEN [w1 EXCEPT !.this.providerProxyUninstaller = TRUE,
                                   !.window.proxies = @ + 1,
                                   !.fx.installs = @ + 1]
                   ELSE w1
             w3 == IF w2.this.type = "embed" /\ w2.this.iframe.created
                   THEN [w2 EXCEPT !.this.iframe.style = ""]
                   ELSE w2
         IN  IF ~w3.window.eventInited
             THEN [_initEvents(w3) EXCEPT !.window.eventInited = TRUE]
             ELSE w3

clickListener(w, target) ==
    IF /\ target[1] \in {"button", "a"}
       /\ target[2] = w.this.elementID
       /\ ~w.this.isOpen
    THEN openSession(w)
    ELSE w

(***************************************************************************)
(* init and what it calls.                                                 *)
(***************************************************************************)
_initModal(w) == [w EXCEPT !.document.clickListeners = @ + 1]

(* _initEmbed giving up when the mount point is absent. *)
_initEmbedNoRetry(w) ==
    IF w.this.elementID = "" \/ ~w.document.mount.exists
    THEN w
    ELSE LET w1 == getFlow(w)
             w2 == IF w1.this.iframe.created
                   THEN [w1 EXCEPT !.this.iframe.class = "sdk-synaps-container",
                                   !.this.iframe.parent = "mount",
                                   !.fx.attached = @ + 1]
                   ELSE w1
         IN  [w2 EXCEPT
                !.this.loader = [created |-> TRUE, class |-> "embed",
                                 parent |-> "mount"],
                !.this.loaderElement = "mount",
                !.document.mount.loaders = @ + 1,
                !.this.isOpen = TRUE]

_initEmbed(w) ==
    IF w.this.elementID = ""
    THEN w
    ELSE IF ~w.document.mount.exists
    THEN [w EXCEPT !.window.timers = @ + 1]
    ELSE LET w1 == getFlow(w)
             w2 == IF w1.this.iframe.created
                   THEN [w1 EXCEPT !.this.iframe.class = "sdk-synaps-container",
                                   !.this.iframe.parent = "mount",
                                   !.fx.attached = @ + 1]
                   ELSE w1
         IN  [w2 EXCEPT
                !.this.loader = [created |-> TRUE, class |-> "embed",
                                 parent |-> "mount"],
                !.this.loaderElement = "mount",
                !.document.mount.loaders = @ + 1,
                !.this.isOpen = TRUE]

(* _initLoad registering the finish/close dispatcher at once. *)
_initLoadEager(w) ==
    LET w1 == IF w.this.type = "modal" THEN _initModal(w) ELSE _initEmbed(w)
    IN  [_initEvents(w1) EXCEPT !.window.loadListeners = @ + 1,
                                !.window.eventInited = FALSE]

_initLoad(w) ==
    LET w1 == IF w.this.type = "modal" THEN _initModal(w) ELSE _initEmbed(w)
    IN  [w1 EXCEPT !.window.loadListeners = @ + 1,
                   !.window.eventInited = FALSE]

(* invalidType accepting every type. *)
invalidTypeNever(options) == FALSE

invalidType(options) ==
    options.given /\ options.type # "" /\ options.type \notin {"modal", "embed"}

initApply(w, options) ==
    LET type == IF options.type = "" THEN "modal" ELSE options.type
        w1 == [w EXCEPT
                 !.this.elementID =
                     IF options.element_id = ""
                     THEN IF type = "modal" THEN "synaps-btn" ELSE "synaps-embed"
                     ELSE options.element_id,
                 !.this.colors = options.colors,
                 !.this.type = type,
                 !.this.lang = IF options.lang = "" THEN "en" ELSE options.lang,
                 !.this.tier = options.tier,
                 !.this.iframe = [NoIframe EXCEPT !.created = TRUE]]
    IN  [_initLoad(w1) EXCEPT !.this.alreadyInit = TRUE]

(* initBody setting the alreadyInit flag before it validates the type. *)
initBodyFlagFirst(w, options) ==
    IF invalidType(options)
    THEN Throw([w EXCEPT !.this.alreadyInit = TRUE])
    ELSE initApply(w, options)

initBody(w, options) ==
    IF invalidType(options) THEN Throw(w) ELSE initApply(w, options)

(* init without its alreadyInit guard. *)
initUnguarded(w, options) == initBody(w, options)

init(w, options) ==
    IF w.this.alreadyInit THEN w ELSE initBody(w, options)

(***************************************************************************)
(* Delivery of one event to every listener registered when it is           *)
(* dispatched; an error thrown by a listener does not stop the others.     *)
(***************************************************************************)
RECURSIVE RunLoad(_, _, _)
RunLoad(w, data, n) ==
    IF n = 0 THEN w ELSE RunLoad(loadListener(w, data), data, n - 1)

RECURSIVE RunEvents(_, _, _)
RunEvents(w, data, n) ==
    IF n = 0 THEN w ELSE RunEvents(eventsListener(w, data), data, n - 1)

RECURSIVE RunClick(_, _, _)
RunClick(w, target, n) ==
    IF n = 0 THEN w ELSE RunClick(clickListener(w, target), target, n - 1)

(***************************************************************************)
(* Actions.                                                                *)
(***************************************************************************)
Construct ==
    /\ ~constructed
    /\ \E sessionID \in SessionIDs, service \in Services, url \in URLs :
         LET w == constructor(Begin("construct", <<sessionID, service, url>>, NoOptions),
                              sessionID, service, url)
         IN  /\ constructed' = ~w.fx.threw
             /\ Commit(w)

InitCall ==
    /\ constructed
    /\ \E options \in InitOptions :
         Commit(init(Begin("init", <<>>, options), options))
    /\ UNCHANGED constructed

On ==
    /\ constructed
    /\ \E type \in EventNames, callback \in Callbacks :
         Commit(on(Begin("on", <<type, callback>>, NoOptions), type, callback))
    /\ UNCHANGED constructed

OpenSession ==
    /\ constructed
    /\ Commit(openSession(Begin("openSession", <<>>, NoOptions)))
    /\ UNCHANGED constructed

CloseFlow ==
    /\ constructed
    /\ Commit(closeFlow(Begin("closeFlow", <<>>, NoOptions)))
    /\ UNCHANGED constructed

GetFlow ==
    /\ constructed
    /\ Commit(getFlow(Begin("getFlow", <<>>, NoOptions)))
    /\ UNCHANGED constructed

Click ==
    /\ constructed
    /\ \E target \in ClickTargets :
         Commit(RunClick(Begin("click", target, NoOptions), target,
                         document.clickListeners))
    /\ UNCHANGED constructed

Message ==
    /\ constructed
    /\ \E data \in Payloads :
         Commit(RunEvents(RunLoad(Begin("message", <<data>>, NoOptions), data,
                                  window.loadListeners),
                          data, window.eventListeners))
    /\ UNCHANGED constructed

Tick ==
    /\ window.timers > 0
    /\ Commit(_initEmbed([Begin("tick", <<>>, NoOptions) EXCEPT !.window.timers = @ - 1]))
    /\ UNCHANGED constructed

(* The host page gains the element that _initEmbed's getElementById looks   *)
(* for; once a modal controller is initialized nothing looks for it.       *)
MountAppears ==
    /\ constructed
    /\ ~document.mount.exists
    /\ ~(this.alreadyInit /\ this.type = "modal")
    /\ Commit([Begin("mountAppears", <<>>, NoOptions) EXCEPT
                 !.document.mount.exists = TRUE])
    /\ UNCHANGED constructed

Next ==
    \/ Construct
    \/ InitCall
    \/ On
    \/ OpenSession
    \/ CloseFlow
    \/ GetFlow
    \/ Click
    \/ Message
    \/ Tick
    \/ MountAppears

Spec == Init /\ [][Next]_vars

(***************************************************************************)
(* The controller with its timer: every call and event but the             *)
(* registration of callbacks, and a pending setTimeout that does fire.     *)
(***************************************************************************)
PollingNext ==
    \/ Construct
    \/ InitCall
    \/ OpenSession
    \/ CloseFlow
    \/ GetFlow
    \/ Click
    \/ Message
    \/ Tick
    \/ MountAppears

PollingSpec == Init /\ [][PollingNext]_vars /\ WF_vars(Tick)

(***************************************************************************)
(* What the last step was.                                                 *)
(***************************************************************************)
Received(type) == last.op = "message" /\ last.args = <<type>>

LayoutRestored ==
    /\ document.html.overflow = ""
    /\ document.body.overflow = ""
    /\ document.html.margin = ""
    /\ document.body.margin = ""

(***************************************************************************)
(* C1.  After every run of closeFlow, called by the host or by the         *)
(* finish/close dispatcher, from any state and whether or not it threw,    *)
(* the html/body overflow and margin overrides are absent and isOpen is    *)
(* false.                                                                  *)
(***************************************************************************)
C1_CloseRestoresLayout ==
    last.closed > 0 => LayoutRestored /\ ~this.isOpen

(* The dispatcher closed an open modal session on a finish signal. *)
C1_Witness ==
    /\ Received("finish")
    /\ last.closed = 1
    /\ last.pre.isOpen
    /\ last.pre.parent = "body"
    /\ this.type = "modal"

(***************************************************************************)
(* C2.  closeFlow and openSession never raise an error, in particular      *)
(* closeFlow called after init while the surface is not attached to the    *)
(* page body.                                                              *)
(***************************************************************************)
C2_CloseNeverThrows ==
    last.op \in {"closeFlow", "openSession"} => ~last.threw

(***************************************************************************)
(* C3.  openSession while isOpen is true changes nothing and attaches      *)
(* nothing; so of two openSession calls in a row the second attaches       *)
(* nothing, and the ready signal that follows them installs exactly one    *)
(* proxy.                                                                  *)
(***************************************************************************)
C3_OpenTwiceAttachesOnce ==
    /\ (last.op = "openSession" /\ last.pre.isOpen)
          => (~last.changed /\ last.attached = 0 /\ ~last.threw)
    /\ (last.op = "openSession" /\ last.opens >= 1) => last.attached = 0
    /\ (Received("ready") /\ last.opens = 2) => last.installs = 1

(* openSession, openSession, ready: the ready signal installed one proxy. *)
C3_Witness ==
    /\ Received("ready")
    /\ last.opens = 2
    /\ last.installs = 1
    /\ this.iframe.parent = "body"

(***************************************************************************)
(* C4.  At most one installed proxy is outstanding and the finish/close    *)
(* dispatcher is registered at most once, in every reachable state.        *)
(***************************************************************************)
C4_AtMostOneProxy ==
    window.proxies <= 1 /\ window.eventListeners <= 1

(***************************************************************************)
(* C5.  With a finish callback registered, the dispatcher installed and    *)
(* the session open with its surface attached, a finish signal in modal    *)
(* mode invokes the callback and closes the session (isOpen false, surface *)
(* detached); in embed mode it invokes the callback and nothing is closed  *)
(* (isOpen still true, surface where it was).                              *)
(***************************************************************************)
C5_FinishCallbackAndClose ==
    ( /\ Received("finish")
      /\ last.pre.eventListeners >= 1
      /\ last.pre.isOpen
      /\ last.pre.parent # "none"
      /\ this.callbacks["finish"] # "" )
    => /\ last.invoked = <<this.callbacks["finish"]>>
       /\ IF this.type = "modal"
          THEN ~this.isOpen /\ this.iframe.parent = "none" /\ last.closed = 1
          ELSE this.isOpen /\ this.iframe.parent = last.pre.parent
                 /\ last.closed = 0

(* A finish signal closed an open modal session and invoked the callback. *)
C5_Witness ==
    /\ Received("finish")
    /\ this.type = "modal"
    /\ last.pre.isOpen
    /\ last.pre.parent = "body"
    /\ last.invoked = <<"cbA">>
    /\ ~this.isOpen

(* A finish signal invoked the callback of an open embed session. *)
C5_WitnessEmbed ==
    /\ Received("finish")
    /\ this.type = "embed"
    /\ last.pre.isOpen
    /\ last.pre.parent = "mount"
    /\ last.invoked = <<"cbA">>
    /\ this.isOpen

(***************************************************************************)
(* C6.  An init call made after an init call succeeded changes nothing:    *)
(* the configuration, the listeners and the polling timer are as the first *)
(* call left them, and it throws nothing.                                  *)
(***************************************************************************)
C6_InitIdempotent ==
    (last.op = "init" /\ last.pre.alreadyInit)
    => (~last.changed /\ ~last.threw)

(* A second init asked for embed and the controller stayed modal. *)
C6_Witness ==
    /\ last.op = "init"
    /\ last.pre.alreadyInit
    /\ last.options.type = "embed"
    /\ this.type = "modal"

(***************************************************************************)
(* C7 as stated.  An init call made after an init call failed changes      *)
(* nothing.                                                                *)
(***************************************************************************)
C7_InitNoOpAfterFailure ==
    (last.op = "init" /\ last.initThrew) => ~last.changed

(***************************************************************************)
(* C7 amended.  An init call that fails changes nothing and leaves the     *)
(* controller uninitialized; the next init call with a valid type then     *)
(* takes effect: it applies its options, registers the one message         *)
(* listener and marks the controller initialized.                          *)
(***************************************************************************)
C7_InitRetryAfterFailure ==
    last.op = "init" =>
      /\ last.threw => (~last.changed /\ ~this.alreadyInit)
      /\ (last.initThrew /\ ~last.threw) =>
            /\ last.changed
            /\ this.alreadyInit
            /\ window.loadListeners = 1
            /\ this.type = (IF last.options.type = "" THEN "modal"
                            ELSE last.options.type)
            /\ this.colors = last.options.colors
            /\ this.tier = last.options.tier

(* An init for embed succeeded after an init call had failed. *)
C7_Witness ==
    /\ last.op = "init"
    /\ last.initThrew
    /\ ~last.threw
    /\ this.alreadyInit
    /\ this.type = "embed"

(***************************************************************************)
(* C8.  Construction throws exactly when sessionID or service is missing,  *)
(* whatever the other arguments; otherwise the object starts closed,       *)
(* uninitialized, modal, in English, with the given base URL or, when none *)
(* is given, the default of its service.                                   *)
(***************************************************************************)
C8_ConstructionValidates ==
    last.op = "construct" =>
      IF last.args[1] = "" \/ last.args[2] = ""
      THEN last.threw /\ ~constructed /\ this = NoObject
      ELSE /\ ~last.threw
           /\ constructed
           /\ ~this.isOpen
           /\ ~this.alreadyInit
           /\ this.type = "modal"
           /\ this.lang = "en"
           /\ this.baseURL =
                 (IF last.args[3] # "" THEN last.args[3]
                  ELSE IF last.args[2] = "corporate"
                  THEN "https://verify-v3.synaps.io"
                  ELSE "https://verify.synaps.io")

(* Construction with a session id and a URL but no service threw. *)
C8_Witness ==
    /\ last.op = "construct"
    /\ last.args = <<"abc", "", "https://kyc.example">>
    /\ last.threw

(***************************************************************************)
(* C9.  For sessionID abc, service individual, mode modal, language fr,    *)
(* tier 3 and primary color #fff the URL given to the surface ends with    *)
(* &type=modal&lang=fr&primary_color=%23fff&tier=3.                        *)
(***************************************************************************)
EndsWith(s, t) ==
    Len(s) >= Len(t) /\ SubSeq(s, Len(s) - Len(t) + 1, Len(s)) = t

C9_URLExample ==
    ( /\ this.sessionID = "abc"
      /\ this.service = "individual"
      /\ this.type = "modal"
      /\ this.lang = "fr"
      /\ this.tier = <<3>>
      /\ this.colors = [primary |-> "#fff", secondary |-> <<>>]
      /\ this.iframe.src # "" )
    => EndsWith(this.iframe.src,
                "&type=modal&lang=fr&primary_color=%23fff&tier=3")

(***************************************************************************)
(* C10.  Once the dispatcher is installed, a finish or close signal, in    *)
(* either mode and with the session open or closed, invokes exactly once   *)
(* the callback last registered for that event name, and no other.         *)
(***************************************************************************)
C10_SignalInvokesCallback ==
    ( /\ last.op = "message"
      /\ last.args[1] \in EventNames
      /\ last.pre.eventListeners >= 1 )
    => last.invoked = (IF this.callbacks[last.args[1]] # ""
                       THEN <<this.callbacks[last.args[1]]>>
                       ELSE <<>>)

(***************************************************************************)
(* C11.  A closeFlow run that starts with a handle stored calls its        *)
(* uninstaller exactly once and leaves no handle stored, in either mode; a *)
(* closeFlow run that starts with no handle calls no uninstaller.          *)
(***************************************************************************)
C11_CloseUninstallsHandle ==
    last.closed > 0 =>
      IF last.pre.handle
      THEN last.uninstalls = 1 /\ ~this.providerProxyUninstaller
      ELSE last.uninstalls = 0

(***************************************************************************)
(* C12.  Every ready signal received by the listener while the surface is  *)
(* attached (its contentWindow reachable), a repeated one included,        *)
(* invokes the installer once and stores the uninstaller; a ready signal   *)
(* received while the surface is not attached installs nothing.            *)
(***************************************************************************)
C12_InstallPerReady ==
    (Received("ready") /\ last.pre.alreadyInit) =>
      IF last.pre.parent # "none"
      THEN last.installs = 1 /\ this.providerProxyUninstaller
      ELSE last.installs = 0

(***************************************************************************)
(* C13.  The dispatcher is installed by the first ready signal the         *)
(* listener observes: a finish or close signal that arrives after init     *)
(* and before any ready signal invokes no callback, closes nothing,        *)
(* changes nothing and throws nothing.                                     *)
(***************************************************************************)
C13_NoDispatchBeforeReady ==
    ( /\ last.op = "message"
      /\ last.args[1] \in EventNames
      /\ last.pre.alreadyInit
      /\ ~window.eventInited )
    => /\ last.invoked = <<>>
       /\ last.closed = 0
       /\ ~last.changed
       /\ ~last.threw
       /\ window.eventListeners = 0

(* A finish signal reached an open modal session with a finish callback    *)
(* registered before any ready signal, and the session stayed open.        *)
C13_Witness ==
    /\ Received("finish")
    /\ last.pre.alreadyInit
    /\ ~window.eventInited
    /\ this.type = "modal"
    /\ this.callbacks["finish"] = "cbA"
    /\ this.iframe.parent = "body"
    /\ this.isOpen

(***************************************************************************)
(* C14.  The message listeners outlive closeFlow.  In modal mode, however  *)
(* many times the session was opened and closed before: the first ready    *)
(* signal after an openSession (surface and loader attached) is processed  *)
(* without error, removes the loader, installs one proxy and leaves        *)
(* exactly one handle and one outstanding proxy, with one ready listener   *)
(* and one dispatcher registered; and a finish signal to the open session  *)
(* closes it, uninstalls the proxy and invokes the registered callback     *)
(* once.                                                                   *)
(***************************************************************************)
C14_ListenerSurvivesClose ==
    (this.type = "modal" /\ last.pre.alreadyInit) =>
      /\ ( /\ Received("ready")
           /\ last.pre.isOpen
           /\ last.pre.parent = "body"
           /\ last.pre.loaderParent = "body" )
         => /\ ~last.threw
            /\ last.installs = 1
            /\ this.loader.parent = "none"
            /\ this.providerProxyUninstaller
            /\ window.proxies = 1
            /\ window.loadListeners = 1
            /\ window.eventListeners = 1
      /\ ( /\ Received("finish")
           /\ last.pre.isOpen
           /\ last.pre.parent = "body"
           /\ last.pre.eventListeners >= 1 )
         => /\ ~last.threw
            /\ last.closed = 1
            /\ ~this.isOpen
            /\ this.iframe.parent = "none"
            /\ ~this.providerProxyUninstaller
            /\ window.proxies = 0
            /\ last.invoked = (IF this.callbacks["finish"] # ""
                               THEN <<this.callbacks["finish"]>>
                               ELSE <<>>)

(* openSession, ready, closeFlow, openSession, ready, finish: the finish   *)
(* signal of the second cycle invoked the callback and closed the session. *)
C14_Witness ==
    /\ Received("finish")
    /\ last.cycle = 5
    /\ this.type = "modal"
    /\ last.invoked = <<"cbA">>
    /\ last.closed = 1
    /\ ~this.isOpen
    /\ document.body.loaders = 0

(***************************************************************************)
(* C15.  In embed mode a timer tick that finds no mount point changes      *)
(* nothing but reschedules itself, closeFlow leaves the pending timer      *)
(* alone, and a retry is pending exactly as long as the surface has not    *)
(* been mounted, so the loop never stops while the mount point is absent;  *)
(* the tick that finds the mount point attaches the surface and the loader *)
(* to it, sets isOpen and schedules nothing more; and once the mount point *)
(* exists the surface is eventually mounted.                               *)
(***************************************************************************)
Mounted == this.iframe.class = "sdk-synaps-container"

C15_Polling ==
    /\ (last.op = "tick" /\ ~document.mount.exists)
         => (~last.changed /\ window.timers = 1)
    /\ (last.op = "tick" /\ document.mount.exists)
         => /\ last.attached = 1
            /\ this.iframe.parent = "mount"
            /\ this.loader.parent = "mount"
            /\ document.mount.loaders = 1
            /\ this.isOpen
            /\ window.timers = 0
    /\ last.closed > 0 => window.timers = last.pre.timers
    /\ (this.alreadyInit /\ this.type = "embed")
         => /\ window.timers = (IF Mounted THEN 0 ELSE 1)
            /\ ~document.mount.exists => window.timers = 1
    /\ document.mount.loaders <= 1

C15_EmbedRetry ==
    /\ []C15_Polling
    /\ (this.alreadyInit /\ this.type = "embed" /\ document.mount.exists)
         ~> (Mounted /\ window.timers = 0)

(* A pending retry found the mount point and mounted the closed surface. *)
C15_Witness ==
    /\ last.op = "tick"
    /\ last.attached = 1
    /\ last.pre.timers = 1
    /\ ~last.pre.isOpen
    /\ this.isOpen
    /\ Mounted
    /\ window.timers = 0

(***************************************************************************)
(* C16.  In embed mode the surface attached to the page carries the hidden *)
(* placeholder style unless a ready signal has removed its style since it  *)
(* was last mounted or given a URL (its style is then empty).              *)
(***************************************************************************)
C16_EmbedHiddenUntilReady ==
    (this.alreadyInit /\ this.type = "embed" /\ this.iframe.parent # "none")
    => this.iframe.style \in {"hidden", ""}

(***************************************************************************)
(* C17.  init on a controller that is not initialized, with a type that is *)
(* present and neither modal nor embed, throws and changes nothing: the    *)
(* configuration, the surface, isOpen and the alreadyInit flag are as they *)
(* were, and no message listener, click listener or timer exists.          *)
(***************************************************************************)
C17_InvalidTypeAborts ==
    ( /\ last.op = "init"
      /\ ~last.pre.alreadyInit
      /\ last.options.given
      /\ last.options.type \notin {"", "modal", "embed"} )
    => /\ last.threw
       /\ ~last.changed
       /\ ~this.alreadyInit
       /\ this.isOpen = last.pre.isOpen
       /\ this.type = "modal" /\ this.elementID = "" /\ this.lang = "en"
       /\ this.tier = <<>> /\ this.colors = NoColors
       /\ ~this.iframe.created
       /\ window.loadListeners = 0
       /\ document.clickListeners = 0
       /\ window.timers = 0

(* init with type popup threw on a controller whose openSession had been   *)
(* called, and left it open and uninitialized.                             *)
C17_Witness ==
    /\ last.op = "init"
    /\ last.options.type = "popup"
    /\ last.threw
    /\ last.pre.isOpen
    /\ this.isOpen
    /\ ~this.alreadyInit

(***************************************************************************)
(* C18.  A message whose payload has no type, a type other than ready,     *)
(* finish or close, or no content at all (null) is ignored: no error is    *)
(* thrown, nothing of the object, the page or the window changes, and no   *)
(* callback is invoked.                                                    *)
(***************************************************************************)
C18_OtherMessagesIgnored ==
    (last.op = "message" /\ last.args[1] \notin {"ready", "finish", "close"})
    => (~last.threw /\ ~last.changed /\ last.invoked = <<>>)

(***************************************************************************)
(* C19.  While the session is closed no loading indicator is attached to   *)
(* the page, and at most one loading indicator is attached at any time.    *)
(***************************************************************************)
C19_NoLoaderWhenClosed ==
    /\ ~this.isOpen => document.body.loaders + document.mount.loaders = 0
    /\ document.body.loaders + document.mount.loaders <= 1

(***************************************************************************)
(* C20.  After init, in modal and in embed mode, isOpen is true exactly    *)
(* when the iframe is attached to the page.                                *)
(***************************************************************************)
C20_OpenIffAttached ==
    this.alreadyInit => (this.isOpen <=> this.iframe.parent # "none")

TypeOK ==
    /\ constructed \in BOOLEAN
    /\ this.isOpen \in BOOLEAN
    /\ this.type \in {"", "modal", "embed"}
    /\ window.loadListeners \in 0..1
    /\ window.eventListeners \in 0..1
    /\ window.timers \in 0..1

====
